---- MODULE Spec2Model ----
(***************************************************************************)
(* The useFetch hook of src/index.js as a state machine.                   *)
(*                                                                         *)
(* One hook instance is modelled.  Its React state cells (url, data,       *)
(* loading, error, page), its refs (cacheRef, cancelRequestRef,            *)
(* batchedRequestsRef), the AbortControllers made by the lifecycle effect, *)
(* the axios requests in flight, the retry timers and the poll interval    *)
(* are the state.  Every action is one uninterrupted piece of JavaScript:  *)
(* the effect (with its cleanup), the part of fetchData before the await,  *)
(* the part after it, a timer callback, a call of fetchPage / fetchMore.   *)
(*                                                                         *)
(* React is taken with automatic batching: the state updates of one piece  *)
(* of JavaScript are applied together, and a later render re-runs the      *)
(* effect when one of its dependencies changed.  A state setter writes its *)
(* cell whenever the code calls it.                                        *)
(***************************************************************************)
EXTENDS Integers, Sequences, FiniteSets, TLC

\* ------------------------------------------------------------------ bounds
MaxRetries  == 2   \* options.retries ranges over 0..MaxRetries
MaxBatch    == 2   \* options.batchSize ranges over 1..MaxBatch
MaxRequests == 3   \* axios calls made in one behaviour
MaxPage     == 2   \* page numbers range over 1..MaxPage
MaxEffects  == 2   \* runs of the lifecycle effect in one behaviour
MaxPageCalls == 2  \* calls of fetchPage / fetchMore in one behaviour
MaxRetryCount == 3 \* options.retries in the retry schedule taken alone

\* ------------------------------------------------------- program constants
RetryDelay == 1000       \* retryDelay = 1000

\* ------------------------------------------------------------------ values
\* JavaScript values that reach data / error / the cache, as tagged records.
Null      == [t |-> "null"]
Undefined == [t |-> "undefined"]
Val(n)    == [t |-> "val", v |-> n]
Arr(s)    == [t |-> "arr", s |-> s]

\* Response bodies a server may send; 0 is a falsy JSON value.
Bodies     == {0, 1, 2}
\* A body on which a caller-supplied transformData throws.
PoisonBody == 2

\* JavaScript truthiness of a value (the test `cacheRef.current[url]` makes).
Truthy(x) == CASE x.t = "val" -> x.v # 0
               [] x.t = "arr" -> TRUE
               [] OTHER       -> FALSE

RECURSIVE Sum(_)
Sum(s) == IF s = <<>> THEN 0 ELSE Head(s) + Sum(Tail(s))

VARIABLES
  cfg,                 \* the options of the hook (fixed for a behaviour)
  url, data, loading, error, page,   \* the useState cells
  rendered,            \* the values of url and page seen by the last render
  cacheRef,            \* cacheRef.current : url -> transformed data
  cancelRequestRef,    \* cancelRequestRef.current
  batchedRequestsRef,  \* batchedRequestsRef.current
  mounted,             \* the component is mounted
  effect,              \* the live run of the lifecycle effect, or NoEffect
  gen,                 \* AbortControllers created so far
  aborted,             \* the controllers whose signal is aborted
  requests,            \* axios calls not yet settled
  timers,              \* setTimeout callbacks not yet run
  nreq,                \* axios calls made so far
  authCalls,           \* calls of onAuthenticationError so far
  pageCalls,           \* arguments of the calls of onPageChange so far
  npage,               \* calls of fetchPage / fetchMore so far
  fails,               \* axios calls that failed with an HTTP or network error
  delays,              \* the delays passed to setTimeout so far, in order
  last                 \* what the last step did

vars == <<cfg, url, data, loading, error, page, rendered, cacheRef,
          cancelRequestRef, batchedRequestsRef, mounted, effect, gen, aborted,
          requests, timers, nreq, authCalls, pageCalls, npage, fails,
          delays, last>>

NoEffect == [ctrl |-> 0, url |-> <<>>, interval |-> FALSE]

\* Outcomes recorded for steps that settle no request.
NoOutcome  == [k |-> "none", body |-> 0, status |-> 0]
HitOutcome == [k |-> "hit", body |-> 0, status |-> 0]
SentOutcome == [k |-> "sent", body |-> 0, status |-> 0]

\* `${url}?page=${pageNumber}`: a locator is initialUrl followed by the page
\* suffixes appended to it, in order.
AppendPage(u, n) == Append(u, n)

Configs == [retries : 0..MaxRetries, cache : BOOLEAN, poll : BOOLEAN,
            batchSize : 1..MaxBatch, custom : BOOLEAN, stable : BOOLEAN]

\* setData(response.data): the transform is not applied.
TransformData_Raw(b) == Val(b)

\* transformData: the default `data => data`, or a caller's function, which
\* here doubles the body and throws on PoisonBody.
TransformThrows(b) == cfg.custom /\ b = PoisonBody
TransformData(b)   == IF cfg.custom THEN Val(2 * b) ELSE Val(b)

\* onBatchedResponse, when the caller gives one: here the sum of the batch,
\* and a function that throws on a batch whose sum is 0.
OnBatchedResponse(buf) == Val(Sum(buf))
OnBatchedThrows(buf)   == Sum(buf) = 0

\* The state of a hook that has been called but has not rendered yet.
InitState ==
  /\ url = <<>>
  /\ data = Null
  /\ loading = TRUE
  /\ error = Null
  /\ page = 1
  /\ rendered = [url |-> <<>>, page |-> 1,
                 cells |-> IF cfg.stable THEN <<>> ELSE <<Null, TRUE, Null>>]
  /\ cacheRef = <<>>
  /\ cancelRequestRef = "null"
  /\ batchedRequestsRef = <<>>
  /\ mounted = TRUE
  /\ effect = NoEffect
  /\ gen = 0
  /\ aborted = {}
  /\ requests = {}
  /\ timers = {}
  /\ nreq = 0
  /\ authCalls = 0
  /\ pageCalls = <<>>
  /\ npage = 0
  /\ fails = 0
  /\ delays = <<>>
  /\ last = [kind |-> "init", ctrl |-> 0, rc |-> 0, out |-> NoOutcome,
             dead |-> FALSE]

Init == cfg \in Configs /\ InitState

\* ------------------------------------------------------------ fetchData
\* One step of the model, recorded for the properties below: which piece of
\* code ran, for which controller and retryCount, on which outcome, whether
\* the controller's signal was aborted when it ran.
Step(kind, c, rc, out) ==
  [kind |-> kind, ctrl |-> c, rc |-> rc, out |-> out, dead |-> c \in aborted]

CacheGet(u) == IF u \in DOMAIN cacheRef THEN cacheRef[u] ELSE Undefined

\* `cache && cacheRef.current[url]`
CacheHit(u) == cfg.cache /\ Truthy(CacheGet(u))

\* fetchData up to the await: setLoading(true), setError(null), then either
\* the cached value (setData, setLoading(false), return) or the axios call.
\* The cells and the request set as this part leaves them.
FetchDataBegin(c, rc, u) ==
  IF CacheHit(u)
  THEN [loading |-> FALSE, error |-> Null, data |-> CacheGet(u),
        requests |-> requests, nreq |-> nreq]
  ELSE [loading |-> TRUE, error |-> Null, data |-> data,
        requests |-> requests \cup
                       {[id |-> nreq + 1, ctrl |-> c, rc |-> rc, url |-> u]},
        nreq |-> nreq + 1]

\* The outcomes of an axios call.  A call whose signal is aborted rejects
\* with axios' cancellation error, which is an AxiosError without a response.
HttpStatuses == {401, 500}
Outcomes ==
  [k : {"ok"}, body : Bodies, status : {0}] \cup
  [k : {"http"}, body : {0}, status : HttpStatuses] \cup
  [k : {"network"}, body : {0}, status : {0}]
Canceled == [k |-> "canceled", body |-> 0, status |-> 0]

OutcomesOf(r) == IF r.ctrl \in aborted THEN {Canceled} ELSE Outcomes

\* axios.isAxiosError(error)
IsAxiosError(o) == o.k \in {"http", "network", "canceled"}

\* The error object of setError in the catch block: message, status (0 for
\* undefined) and type (error.code, or 'general').
ErrorOf(o) ==
  IF IsAxiosError(o)
  THEN [t |-> "error",
        message |-> IF o.k = "http" THEN "response.data"
                    ELSE "An unknown error occurred",
        status |-> o.status, type |-> o.k]
  ELSE [t |-> "error", message |-> "error.message", status |-> 0,
        type |-> "general"]

\* retryDelay * (retryCount + 1)
RetryDelayOf(rc) == RetryDelay * (rc + 1)

\* retryCount <= retries: one retry too many.
ShouldRetry_Inclusive(rc) == rc <= cfg.retries

\* retryCount < retries
ShouldRetry(rc) == rc < cfg.retries

\* The catch block without its test of signal.aborted.
SetsError_NoAbortCheck(rc, c) == ~ShouldRetry(rc)

\* else if (!abortController.signal.aborted): the catch block's setError for
\* an axios error is reached when no retry is left and the signal is not
\* aborted.
SetsError(rc, c) == ~ShouldRetry(rc) /\ c \notin aborted

\* The callback on any HTTP error status, not on 401 alone.
CallsAuth_AnyStatus(o) == o.k = "http" /\ cfg.custom

\* error.response?.status === 401 && onAuthenticationError
CallsAuth(o) == o.k = "http" /\ o.status = 401 /\ cfg.custom

\* finally with the test inverted: if (retryCount !== 0) setLoading(false)
FinallyClears_Inverted(rc) == rc # 0

\* finally: if (retryCount === 0) setLoading(false)
FinallyClears(rc) == rc = 0

\* The try block writing the cache under the hook's current locator instead
\* of the locator its request was issued for.
Accumulate_CurrentLocator(r, td) ==
  IF cfg.batchSize = 1
  THEN [data |-> td,
        cacheRef |-> IF cfg.cache THEN (url :> td) @@ cacheRef ELSE cacheRef,
        batch |-> batchedRequestsRef]
  ELSE LET buf == Append(batchedRequestsRef, td.v) IN
       IF Len(buf) >= cfg.batchSize
       THEN [data |-> IF cfg.custom THEN OnBatchedResponse(buf) ELSE Arr(buf),
             cacheRef |-> cacheRef, batch |-> <<>>]
       ELSE [data |-> data, cacheRef |-> cacheRef, batch |-> buf]

\* The try block after the await, for a response whose transform succeeded:
\* the new data, cache and batch buffer.
Accumulate(r, td) ==
  IF cfg.batchSize = 1
  THEN [data |-> td,
        cacheRef |-> IF cfg.cache THEN (r.url :> td) @@ cacheRef ELSE cacheRef,
        batch |-> batchedRequestsRef]
  ELSE LET buf == Append(batchedRequestsRef, td.v) IN
       IF Len(buf) >= cfg.batchSize
       THEN [data |-> IF cfg.custom THEN OnBatchedResponse(buf) ELSE Arr(buf),
             cacheRef |-> cacheRef, batch |-> <<>>]
       ELSE [data |-> data, cacheRef |-> cacheRef, batch |-> buf]

\* The batch with td pushed: batchedRequestsRef.current.push(transformedData).
Pushed(td) == Append(batchedRequestsRef, td.v)

\* The push fills the batch and the caller's onBatchedResponse throws on it.
FlushThrows(td) ==
  /\ cfg.batchSize > 1 /\ cfg.custom
  /\ Len(Pushed(td)) >= cfg.batchSize
  /\ OnBatchedThrows(Pushed(td))

\* The try block ends without an exception: the response arrived, and
\* neither transformData nor onBatchedResponse threw.
TryCompletes(o) ==
  /\ o.k = "ok"
  /\ ~TransformThrows(o.body)
  /\ ~FlushThrows(TransformData(o.body))

\* fetchData from the await on: try / catch / finally for request r settling
\* with outcome o.
Settle(r, o) ==
  /\ r \in requests
  /\ o \in OutcomesOf(r)
  /\ requests' = requests \ {r}
  /\ last' = Step("settle", r.ctrl, r.rc, o)
  /\ fails' = IF o.k \in {"http", "network"} THEN fails + 1 ELSE fails
  /\ IF TryCompletes(o)
     THEN LET acc == Accumulate(r, TransformData(o.body)) IN
          /\ data' = acc.data
          /\ cacheRef' = acc.cacheRef
          /\ batchedRequestsRef' = acc.batch
          /\ error' = Null
          /\ UNCHANGED <<timers, authCalls, delays>>
     ELSE IF IsAxiosError(o)
     THEN /\ authCalls' = IF CallsAuth(o) THEN authCalls + 1 ELSE authCalls
          /\ timers' = IF ShouldRetry(r.rc)
                       THEN timers \cup {[from |-> r.id, ctrl |-> r.ctrl,
                                          rc |-> r.rc + 1, url |-> r.url,
                                          delay |-> RetryDelayOf(r.rc)]}
                       ELSE timers
          /\ delays' = IF ShouldRetry(r.rc)
                       THEN Append(delays, RetryDelayOf(r.rc)) ELSE delays
          /\ error' = IF SetsError(r.rc, r.ctrl)
                      THEN ErrorOf(o) ELSE error
          /\ UNCHANGED <<data, cacheRef, batchedRequestsRef>>
     ELSE /\ error' = ErrorOf(o)
          /\ batchedRequestsRef' = IF TransformThrows(o.body)
                                   THEN batchedRequestsRef
                                   ELSE Pushed(TransformData(o.body))
          /\ UNCHANGED <<data, cacheRef, timers, authCalls, delays>>
  /\ loading' = IF FinallyClears(r.rc) THEN FALSE ELSE loading
  /\ UNCHANGED <<cfg, url, page, rendered, cancelRequestRef, mounted, effect,
                 gen, aborted, nreq, pageCalls, npage>>

\* A call fetchData(c, rc) by the effect, a retry timer or the poll interval.
Begin(kind, c, rc, u) ==
  LET b == FetchDataBegin(c, rc, u) IN
  /\ nreq < MaxRequests
  /\ loading' = b.loading
  /\ error' = b.error
  /\ data' = b.data
  /\ requests' = b.requests
  /\ nreq' = b.nreq
  /\ last' = Step(kind, c, rc, IF CacheHit(u) THEN HitOutcome ELSE SentOutcome)

\* setTimeout(() => fetchData(abortController, retryCount + 1), ...) runs.
TimerFire(tm) ==
  /\ tm \in timers
  /\ timers' = timers \ {tm}
  /\ Begin("timer", tm.ctrl, tm.rc, tm.url)
  /\ UNCHANGED <<cfg, url, page, rendered, cacheRef, cancelRequestRef,
                 batchedRequestsRef, mounted, effect, gen, aborted, authCalls,
                 pageCalls, npage, fails, delays>>

\* setInterval(() => fetchData(abortController), pollInterval) ticks.
PollTick ==
  /\ effect.interval
  /\ Begin("poll", effect.ctrl, 0, effect.url)
  /\ UNCHANGED <<cfg, url, page, rendered, cacheRef, cancelRequestRef,
                 batchedRequestsRef, mounted, effect, gen, aborted, timers,
                 authCalls, pageCalls, npage, fails, delays>>

\* ---------------------------------------------------------- the effect
\* The effect's cleanup: abort the controller, cancel the token source,
\* clear the interval.
CleanupAborted == IF effect = NoEffect THEN aborted ELSE aborted \cup {effect.ctrl}

\* The dependencies [fetchData, url, pollInterval] differ from those of the
\* live effect.  fetchData is a new function when url changed, and on every
\* render when the caller's options (headers, transformData, the callbacks)
\* are new objects on every render, as they are by default.
DepsChanged == effect = NoEffect \/ url # effect.url \/ ~cfg.stable

\* What a render sees.  With stable options a render that finds url and page
\* unchanged changes no dependency and no closure, and is not a step here.
Snapshot == [url |-> url, page |-> page,
             cells |-> IF cfg.stable THEN <<>> ELSE <<data, loading, error>>]

\* A render of the component and the commit that follows it: the first one
\* (mount) or one caused by a state update.  With changed dependencies the
\* old effect is cleaned up and the effect runs again.
Render ==
  /\ mounted
  /\ effect = NoEffect \/ rendered # Snapshot
  /\ rendered' = Snapshot
  /\ IF DepsChanged
     THEN /\ gen < MaxEffects
          /\ gen' = gen + 1
          /\ aborted' = CleanupAborted
          /\ cancelRequestRef' = "source"
          /\ effect' = [ctrl |-> gen + 1, url |-> url, interval |-> cfg.poll]
          /\ Begin("effect", gen + 1, 0, url)
     ELSE /\ last' = [kind |-> "render", ctrl |-> 0, rc |-> 0, out |-> NoOutcome,
                      dead |-> FALSE]
          /\ UNCHANGED <<gen, aborted, cancelRequestRef, effect, loading, error,
                         data, requests, nreq>>
  /\ UNCHANGED <<cfg, url, page, cacheRef, batchedRequestsRef, mounted, timers,
                 authCalls, pageCalls, npage, fails, delays>>

\* The cleanup that leaves the interval running.
IntervalAfterCleanup_Leak == effect.interval

\* clearInterval(intervalId) in the cleanup: the interval ticks no more.
IntervalAfterCleanup == FALSE

\* The component unmounts: the cleanup of the live effect runs.
Unmount ==
  /\ mounted
  /\ effect # NoEffect
  /\ mounted' = FALSE
  /\ aborted' = CleanupAborted
  /\ cancelRequestRef' = "cancelled"
  /\ effect' = [effect EXCEPT !.interval = IntervalAfterCleanup]
  /\ last' = [kind |-> "unmount", ctrl |-> effect.ctrl, rc |-> 0,
              out |-> NoOutcome, dead |-> TRUE]
  /\ UNCHANGED <<cfg, url, data, loading, error, page, rendered, cacheRef,
                 batchedRequestsRef, gen, requests, timers, nreq, authCalls,
                 pageCalls, npage, fails, delays>>

\* ---------------------------------------------------------- pagination
\* fetchPage(pageNumber), through the closure of the last render.
FetchPageBody(kind, n) ==
  /\ mounted
  /\ effect # NoEffect
  /\ n \in 1..MaxPage
  /\ npage < MaxPageCalls
  /\ npage' = npage + 1
  /\ url' = AppendPage(rendered.url, n)
  /\ page' = n
  /\ pageCalls' = IF cfg.custom THEN Append(pageCalls, n) ELSE pageCalls
  /\ last' = [kind |-> kind, ctrl |-> 0, rc |-> 0, out |-> NoOutcome,
              dead |-> FALSE]
  /\ UNCHANGED <<cfg, data, loading, error, rendered, cacheRef, cancelRequestRef,
                 batchedRequestsRef, mounted, effect, gen, aborted, requests,
                 timers, nreq, authCalls, fails, delays>>

FetchPage(n) == FetchPageBody("fetchPage", n)

\* fetchMore(): fetchPage(page + 1), with the page of the last render.
FetchMore == FetchPageBody("fetchMore", rendered.page + 1)

Next ==
  \/ Render
  \/ \E r \in requests : \E o \in OutcomesOf(r) : Settle(r, o)
  \/ \E tm \in timers : TimerFire(tm)
  \/ PollTick
  \/ \E n \in 1..MaxPage : FetchPage(n)
  \/ FetchMore
  \/ Unmount

Spec == Init /\ [][Next]_vars

\* The hook whose fetchPage and fetchMore are never called: the locator stays
\* initialUrl, and the effect re-runs only through unstable options.
NextNoPaging ==
  \/ Render
  \/ \E r \in requests : \E o \in OutcomesOf(r) : Settle(r, o)
  \/ \E tm \in timers : TimerFire(tm)
  \/ PollTick
  \/ Unmount

SpecNoPaging == Init /\ [][NextNoPaging]_vars

\* The hook with retries = 0 (the default): no retry timer is ever scheduled,
\* and pagination, polling, caching and batching are all there.
InitNoRetry == cfg \in {c \in Configs : c.retries = 0} /\ InitState

NextNoRetry ==
  \/ Render
  \/ \E r \in requests : \E o \in OutcomesOf(r) : Settle(r, o)
  \/ PollTick
  \/ \E n \in 1..MaxPage : FetchPage(n)
  \/ FetchMore
  \/ Unmount

SpecNoRetry == InitNoRetry /\ [][NextNoRetry]_vars

\* The retry schedule alone: a cycle whose every attempt fails with a
\* transport error, with retries = MaxRetryCount. The failure of the attempt
\* with retryCount k schedules the next attempt after RetryDelayOf(k).
BackoffConfigs == [retries : {MaxRetryCount}, cache : BOOLEAN,
                   poll : BOOLEAN, batchSize : 1..MaxBatch,
                   custom : BOOLEAN, stable : BOOLEAN]

InitBackoff == cfg \in BackoffConfigs /\ InitState

ScheduleRetry ==
  /\ ShouldRetry(Len(delays))
  /\ delays' = Append(delays, RetryDelayOf(Len(delays)))
  /\ fails' = fails + 1
  /\ UNCHANGED <<cfg, url, data, loading, error, page, rendered, cacheRef,
                 cancelRequestRef, batchedRequestsRef, mounted, effect, gen,
                 aborted, requests, timers, nreq, authCalls, pageCalls, npage,
                 last>>

SpecBackoff == InitBackoff /\ [][ScheduleRetry]_vars

\* ------------------------------------------------------------ properties
Min(a, b) == IF a < b THEN a ELSE b

LiveRequests == {r \in requests : r.ctrl \notin aborted}
LiveTimers   == {tm \in timers : tm.ctrl \notin aborted}

\* The last step settled a request with an HTTP or network error.
TransportFailure(l) == l.kind = "settle" /\ l.out.k \in {"http", "network"}

\* C1 (supersession): once the effect has run again for a new locator, no
\* completion, retry or finally-step of an earlier controller's cycle changes
\* data, loading or error.
C1_SupersededCycleIsSilent ==
  [][(mounted' /\ last'.kind \in {"settle", "timer"} /\ last'.ctrl # effect'.ctrl)
       => UNCHANGED <<data, loading, error>>]_vars

C4_LoadingOnlyFirstAttempt ==
  [][/\ (last'.kind = "timer" => ~(~loading /\ loading'))
     /\ (/\ effect' # NoEffect /\ requests' = {} /\ timers' = {}
         /\ (mounted' => rendered' = [url |-> url', page |-> page',
                                      cells |-> IF cfg.stable THEN <<>>
                                                ELSE <<data', loading', error'>>])
         => ~loading')]_vars

\* C5 (single active cycle): at most one request or retry timer of a
\* controller that is not aborted exists.
C5_SingleActiveCycle ==
  Cardinality(LiveRequests) + Cardinality(LiveTimers) <= 1

\* C6 (cache idempotence): with cache = true and batchSize = 1, a start (by
\* the effect or a poll tick) on a locator for which a value was stored makes
\* no request, sets data to the stored value and leaves loading false.
C6_CacheIdempotence ==
  [][(/\ cfg.cache /\ cfg.batchSize = 1
      /\ last'.kind \in {"effect", "poll"}
      /\ effect'.url \in DOMAIN cacheRef)
       => /\ nreq' = nreq
          /\ data' = cacheRef[effect'.url]
          /\ ~loading']_vars

\* C7 (batching): with batchSize = N > 1, a successful fetch that leaves the
\* buffer shorter than N keeps data and makes loading false; the N-th one sets
\* data to onBatchedResponse(buffer), or to the buffer, and empties the buffer.
C7_Batching ==
  [][(/\ cfg.batchSize > 1
      /\ last'.kind = "settle" /\ last'.out.k = "ok"
      /\ ~TransformThrows(last'.out.body))
       => LET buf == Append(batchedRequestsRef, TransformData(last'.out.body).v)
          IN IF Len(buf) < cfg.batchSize
             THEN data' = data /\ ~loading' /\ batchedRequestsRef' = buf
             ELSE /\ data' = IF cfg.custom THEN OnBatchedResponse(buf)
                                           ELSE Arr(buf)
                  /\ batchedRequestsRef' = <<>>]_vars

\* C8 (pagination): after a call fetchPage(n) or fetchMore(), page is n, the
\* locator is initialUrl with the single suffix page=n, and onPageChange was
\* called once per pagination call, last with n.
C8_PageLocator ==
  npage > 0 =>
    /\ url = AppendPage(<<>>, page)
    /\ (cfg.custom => Len(pageCalls) = npage /\ pageCalls[npage] = page)

\* C9 (retries = 0): a transport failure sets error in the step that handles
\* it, schedules no timer, makes no request and leaves loading false; without
\* polling or supersession loading was true until that step.
C9_NoRetryFailure ==
  [][(cfg.retries = 0 /\ TransportFailure(last'))
       => /\ error' = ErrorOf(last'.out) /\ error' # Null
          /\ timers' = {} /\ timers = {}
          /\ nreq' = nreq
          /\ requests' \subseteq requests
          /\ ~loading'
          /\ (gen = 1 /\ ~cfg.poll => loading /\ requests' = {})]_vars

\* C9 witness: retries = 0, the only attempt failed with a network error.
C9_Witness ==
  /\ cfg.retries = 0 /\ ~cfg.poll /\ gen = 1
  /\ TransportFailure(last) /\ last.out.k = "network"
  /\ error = ErrorOf(last.out) /\ ~loading /\ nreq = 1 /\ requests = {}

\* C10 (authentication callback): onAuthenticationError, when given, is called
\* once in the step that handles an attempt ending with status 401, whether or
\* not a retry follows, and in no other step.
C10_AuthCallback ==
  [][authCalls' = authCalls +
       (IF /\ cfg.custom /\ last'.kind = "settle"
           /\ last'.out.k = "http" /\ last'.out.status = 401
        THEN 1 ELSE 0)]_vars

\* C10 witness: a 401 followed by a retry and a 401 on the last attempt, two
\* calls of the callback.
C10_Witness ==
  /\ cfg.custom /\ cfg.retries = 1 /\ authCalls = 2
  /\ last.kind = "settle" /\ last.rc = 1 /\ last.out.status = 401
  /\ error # Null

\* C11 (exponential backoff): the delays scheduled before consecutive retries
\* grow by one constant factor greater than 1, that is each delay is larger
\* than the one before and delay(k+1) / delay(k) = delay(k) / delay(k-1).
C11_ExponentialBackoff ==
  \A k \in 1..(Len(delays) - 1) :
     /\ delays[k + 1] > delays[k]
     /\ (k > 1 => delays[k + 1] * delays[k - 1] = delays[k] * delays[k])

\* C12 (cancellation stops retries): a failure handled after the cycle's
\* signal was aborted schedules no retry timer, and no retry timer calls
\* fetchData for a controller whose signal is aborted.
C12_CancelledNeverRetried ==
  [][/\ (last'.kind = "settle" /\ last'.dead => timers' = timers)
     /\ (last'.kind = "timer" => ~last'.dead)]_vars

\* C13 (aborted cycles are silent about errors): a failure handled when the
\* attempt's signal is already aborted leaves error as it was.
C13_AbortedNeverSetsError ==
  [][(last'.kind = "settle" /\ last'.dead) => error' = error]_vars

\* An attempt with no retry left was handled after its signal was aborted,
\* while the component is still mounted on a newer run of the effect.
C13_Witness ==
  /\ last.kind = "settle" /\ last.dead /\ last.out.k = "canceled"
  /\ last.rc = cfg.retries
  /\ mounted /\ effect.ctrl # last.ctrl

\* What the caller's transformData makes of a response body.
Transformed(b) == Val(IF cfg.custom THEN 2 * b ELSE b)

\* The step handled a response that arrived and that transformData accepted.
Succeeds ==
  last'.kind = "settle" /\ last'.out.k = "ok" /\ ~TransformThrows(last'.out.body)

\* What C14 promises of such a step: data is the transformed response, error
\* is null, and the step schedules no timer and issues no request.
SuccessEndsCycle ==
  /\ data' = Transformed(last'.out.body)
  /\ error' = Null
  /\ timers' = timers
  /\ requests' \subseteq requests /\ nreq' = nreq

\* C14 as stated (success on the retry path, any batchSize): when an attempt
\* of a cycle succeeds, whatever its retryCount, data becomes the transformed
\* response, error becomes null and nothing more is attempted.
C14_RetrySuccessAnyBatch == [][Succeeds => SuccessEndsCycle]_vars

\* C14 amended (success on the retry path, batchSize = 1): without batching,
\* when an attempt of a cycle succeeds, whatever its retryCount, data becomes
\* the transformed response, error becomes null and nothing more is attempted.
C14_RetrySuccess ==
  [][(cfg.batchSize = 1 /\ Succeeds) => SuccessEndsCycle]_vars

\* A retry (retryCount >= 1) succeeded on a hook with a transformData of its
\* own and no batching.
C14_Witness ==
  /\ last.kind = "settle" /\ last.out.k = "ok" /\ last.rc >= 1
  /\ cfg.batchSize = 1 /\ cfg.custom /\ last.out.body = 1
  /\ data = Val(2) /\ error = Null /\ fails >= 1

\* The step handled a response that arrived, and transformData or
\* onBatchedResponse threw on it: a failure that is no transport error.
NonTransportFailure ==
  /\ last'.kind = "settle" /\ last'.out.k = "ok"
  /\ \/ TransformThrows(last'.out.body)
     \/ FlushThrows(TransformData(last'.out.body))

\* C15 (non-transport failures): a failure raised by transformData or by any
\* other code of the try block that is no transport error sets error to the
\* 'general' error in the step that handles it, schedules no retry timer and
\* leaves data, the cache and the batch buffer unchanged.
C15_NonTransportFailure ==
  [][NonTransportFailure
       => /\ error'.t = "error" /\ error'.type = "general"
          /\ timers' = timers
          /\ UNCHANGED <<data, cacheRef, batchedRequestsRef>>]_vars

\* C16 (batch buffer bound): with batchSize = N > 1 the batch buffer holds
\* fewer than N entries whenever no fetchData step is running.
C16_BatchBufferBound ==
  cfg.batchSize > 1 => Len(batchedRequestsRef) < cfg.batchSize

\* The locators of the requests the step issued.
Issued == {r.url : r \in requests' \ requests}

C18_Quiescence == (~cfg.poll /\ npage = 0) => gen <= 1

\* C19 (cache coherence): the cache changes only in a step that handles a
\* successful response on a hook with cache = true and batchSize = 1, and
\* the change writes, under the locator the settled request was issued for,
\* the transformed body of that response; every entry is therefore the
\* transformed body of a successful response for its own locator, and
\* failed, cancelled and batched attempts leave the cache unchanged.
C19_CacheCoherence ==
  [][cacheRef' # cacheRef
       => /\ cfg.cache /\ cfg.batchSize = 1
          /\ last'.kind = "settle" /\ last'.out.k = "ok"
          /\ \E r \in requests \ requests' :
                cacheRef' = (r.url :> Transformed(last'.out.body)) @@ cacheRef]_vars

\* Two locators are cached, the second one written by the last step for the
\* paged locator the hook is on.
C19_Witness ==
  /\ cfg.cache /\ cfg.custom /\ cfg.batchSize = 1
  /\ last.kind = "settle" /\ last.out.k = "ok" /\ last.out.body = 1
  /\ url # <<>> /\ DOMAIN cacheRef = {<<>>, url}
  /\ cacheRef[url] = Val(2)

\* The step handled a successful response whose push filled the batch: the
\* code hands the buffer to onBatchedResponse, or sets it as data.
Flushes ==
  /\ Succeeds /\ cfg.batchSize > 1
  /\ Len(Pushed(TransformData(last'.out.body))) >= cfg.batchSize

\* C20 (batch content and order): the sequence handed to onBatchedResponse,
\* or set as data, at a flush holds exactly N = batchSize results: those of
\* the N successful fetches completed since the buffer was last handed over,
\* the result of the step itself last.
C20_BatchContent ==
  [][Flushes => Len(Pushed(TransformData(last'.out.body))) = cfg.batchSize]_vars

====
